---- MODULE Spec2Model ----
(***************************************************************************)
(* Model of examples/DocQA/app.py: the document loader (find_file_set,     *)
(* load_documents), the streaming relay (LlamaChatInterface.chat_stream),  *)
(* and the GUI shell with its per-turn worker thread (App.send_message,    *)
(* process_chat, reset_input_state, update_chat_display, clear_chat).      *)
(*                                                                         *)
(* Text is a sequence of atoms.  An atom is one character, except that the *)
(* fixed literals the program writes ("<tool-begin>", "User:", ...) are    *)
(* one atom each.  SP is the space character, the only whitespace.         *)
(***************************************************************************)
EXTENDS Integers, Sequences, FiniteSets, TLC

VARIABLES
    setup_completed,   \* App.setup_completed
    is_processing,     \* App.is_processing
    send_button,       \* state of App.send_button: "normal" or "disabled"
    chat_history,      \* App.chat_history: sequence of [role, content]
    chat_display,      \* lines held by App.chat_display
    session_id,        \* App.chat_interface.session_id (0 is None)
    sessions_created,  \* sessions the external agent has created so far
    threads,           \* the live threads started by send_message, by number
    started,           \* how many threads send_message has started
    last_turn,         \* how the turn of the thread that ended last went
    timers,            \* Tk's timer queue: callbacks scheduled with after()
    last_op,           \* the last step, when it was a tracked handler outcome
    docs_dir,          \* loader: how docs_dir was given ("abs" or "rel")
    tree,              \* loader: the directory tree, as rglob enumerates it
    file_set,          \* loader: result of find_file_set
    documents,         \* loader: load_documents' local list
    inserted,          \* loader: lists handed to rag_tool.insert
    load_pc,           \* loader: position in load_documents
    load_i,            \* loader: index of the loop over file_set
    log,               \* relay: what create_turn and the event log will do
    cs_pc,             \* relay: position of the chat_stream generator
    cs_i,              \* relay: events of the log consumed so far
    current_response,  \* relay: chat_stream's current_response
    yielded,           \* relay: the strings the generator has yielded
    drawn              \* relay: the last drawing of a yielded string

guiVars == <<setup_completed, is_processing, send_button,
             chat_history, chat_display, session_id, sessions_created,
             threads, started, last_turn, timers, last_op>>

loadVars == <<docs_dir, tree, file_set, documents, inserted, load_pc, load_i>>

vars == <<setup_completed, is_processing, send_button,
          chat_history, chat_display, session_id, sessions_created,
          threads, started, last_turn, timers, last_op,
          docs_dir, tree, file_set, documents, inserted, load_pc, load_i,
          log, cs_pc, cs_i, current_response, yielded, drawn>>

relayVars == <<log, cs_pc, cs_i, current_response, yielded, drawn>>

(***************************************************************************)
(* Bounds of the model.                                                    *)
(***************************************************************************)
\* messages accepted by send_message in one run
MaxTurns == 2

\* events one event log delivers before it ends, fails or hangs
MaxEvents == 1

\* sessions the external agent hands out in one run
MaxSessions == 1

\* "please complete setup" notices appended before setup
MaxNotices == 1

\* entries of the directory tree
MaxFiles == 2

\* events of the event log given to the relay on its own
MaxLog == 3

\* messages accepted in one run of the specification with fairness
MaxFairTurns == 1

(***************************************************************************)
(* Text                                                                    *)
(***************************************************************************)
SP == " "

ToolBegin == "<tool-begin>"

ToolEnd == "<tool-end>"

\* str.strip(): drop leading and trailing whitespace
RECURSIVE LStrip(_)
LStrip(s) ==
    IF s # <<>> /\ Head(s) = SP THEN LStrip(Tail(s)) ELSE s

RECURSIVE RStrip(_)
RStrip(s) ==
    IF s # <<>> /\ s[Len(s)] = SP THEN RStrip(SubSeq(s, 1, Len(s) - 1)) ELSE s

Strip(s) == RStrip(LStrip(s))

\* str.split(): the maximal runs of non-whitespace atoms, in order
RECURSIVE SplitFrom(_, _, _, _)
SplitFrom(s, i, cur, acc) ==
    IF i > Len(s)
    THEN IF cur = <<>> THEN acc ELSE Append(acc, cur)
    ELSE IF s[i] = SP
         THEN SplitFrom(s, i + 1, <<>>, IF cur = <<>> THEN acc ELSE Append(acc, cur))
         ELSE SplitFrom(s, i + 1, Append(cur, s[i]), acc)

Split(s) == SplitFrom(s, 1, <<>>, <<>>)

\* word.startswith(marker) for a marker that is one atom
StartsWith(word, marker) == word # <<>> /\ word[1] = marker

\* f"Error: {e}"
ErrorText(e) == <<"Error:", SP>> \o e

(***************************************************************************)
(* update_chat_display: the lines drawn for the chat history               *)
(***************************************************************************)
UserLine(content) == [tag |-> "user", text |-> <<"User:", SP>> \o content]

ToolLine(cur_message) ==
    [tag |-> "tool", text |-> <<"Tool Execution:", SP>> \o cur_message]

AssistantLine(cur_message) ==
    [tag |-> "assistant", text |-> <<"Assistant:", SP>> \o cur_message]

\* the loop over words of one assistant message
RECURSIVE WordLoop(_, _, _, _, _)
WordLoop(words, i, tool_execution, cur_message, lines) ==
    IF i > Len(words)
    THEN [tool_execution |-> tool_execution, cur_message |-> cur_message,
          lines |-> lines]
    ELSE IF StartsWith(words[i], ToolBegin)
         THEN WordLoop(words, i + 1, TRUE, cur_message, lines)
         ELSE IF StartsWith(words[i], ToolEnd)
              THEN WordLoop(words, i + 1, FALSE, <<>>,
                            Append(lines, ToolLine(cur_message)))
              ELSE WordLoop(words, i + 1, tool_execution,
                            cur_message \o <<SP>> \o words[i], lines)

RenderAssistant(content) ==
    LET r == WordLoop(Split(content), 1, FALSE, <<>>, <<>>)
    IN  IF r.cur_message # <<>> /\ r.tool_execution
        THEN Append(r.lines, ToolLine(r.cur_message))
        ELSE Append(r.lines, AssistantLine(r.cur_message))

RenderMessage(message) ==
    IF message.role = "user"
    THEN <<UserLine(message.content)>>
    ELSE RenderAssistant(message.content)

RECURSIVE RenderFrom(_, _)
RenderFrom(history, i) ==
    IF i > Len(history) THEN <<>>
    ELSE RenderMessage(history[i]) \o RenderFrom(history, i + 1)

update_chat_display(history) == RenderFrom(history, 1)

\* append_chat(text): one more piece of untagged text at the end
append_chat(display, text) == Append(display, [tag |-> "", text |-> text])

(***************************************************************************)
(* Inputs of the GUI model                                                 *)
(***************************************************************************)
\* what message_entry can hold when Send is pressed or Return is typed
EntryTexts == { <<>>, <<SP>>, <<"q">>, <<SP, "q", SP>> }

\* what EventLogger().log(response) can deliver: an event with a plain
\* content, one whose str() carries "tool_execution>", one without content
LogEvents ==
    { [kind |-> "text", content |-> <<"a">>],
      [kind |-> "tool", content |-> <<"t">>],
      [kind |-> "none", content |-> <<>>] }

\* str(e) of an exception raised by the external client
ClientErrors == { <<"x">> }

\* str(e) of the IndexError raised by [][-1]
IndexErrorText == <<"list", SP, "index", SP, "out", SP, "of", SP, "range">>

\* the attributes App.__init__ sets on the App object (those the handlers
\* of the chat tab read); the agent is self.chat_interface.agent
AppAttributes ==
    { "chat_interface", "chat_history", "setup_completed", "is_processing",
      "chat_display", "message_entry", "send_button", "clear_button" }

(***************************************************************************)
(* Threads and timers                                                      *)
(***************************************************************************)
\* the thread made by threading.Thread(target=self.process_chat,
\* args=(message,)), at its start
NewThread(message) ==
    [ pc |-> "start",              \* position in process_chat
      message |-> message,         \* process_chat's argument
      gen |-> "new",               \* state of the chat_stream generator
      current_response |-> <<>>,   \* chat_stream's current_response
      response |-> <<>>,           \* process_chat's current_response
      n |-> 0,                     \* events the log has delivered
      session |-> 0,               \* session_id given to create_turn
      failed |-> "ok" ]            \* where the turn met an exception

Workers == DOMAIN threads

\* a thread is active from its start until it leaves process_chat
ActiveWorkers == Workers

Busy == ActiveWorkers # {}

\* threads once thread w has left process_chat
Without(w) == [v \in Workers \ {w} |-> threads[v]]

Timer(cb, w, e) == [cb |-> cb, w |-> w, e |-> e]

\* self.after(100, self.update_chat_display): due after every pending timer
After100(q) == Append(q, Timer("update_chat_display", 0, <<>>))

\* self.after(0, cb): due now, so it runs after the timers that are due
\* already and before those that are not; only timers set with after(100)
\* can still be waiting, and they wait in the order they were set
After0(q, t) ==
    { SubSeq(q, 1, p) \o <<t>> \o SubSeq(q, p + 1, Len(q)) :
        p \in { k \in 0..Len(q) :
                  \A j \in (k + 1)..Len(q) : q[j].cb = "update_chat_display" } }

\* the handler outcomes last_op tells apart
TrackedOps == {"send_ignored", "clear"}

\* last_op after a step: for a tracked handler outcome, the outcome and
\* whether a worker was active when the handler ran
Did(op) ==
    IF op \in TrackedOps
    THEN [op |-> op, busy |-> Busy]
    ELSE [op |-> "", busy |-> FALSE]

(***************************************************************************)
(* The UI thread: handlers of the Tk main loop                             *)
(***************************************************************************)
\* App.setup_chat_interface: it ends early with an error shown in the
\* status label (missing folder, unsupported model, an exception of the
\* client), or initialize_system runs to its last statement,
\* initialize_agent's create_session
setup_chat_interface ==
    /\ \/ UNCHANGED <<setup_completed, session_id, sessions_created>>
       \/ /\ sessions_created < MaxSessions
          /\ sessions_created' = sessions_created + 1
          /\ session_id' = sessions_created + 1
          /\ setup_completed' = TRUE
    /\ last_op' = Did("setup")
    /\ UNCHANGED <<is_processing, send_button, chat_history, chat_display,
                   threads, started, last_turn, timers>>

\* App.send_message from its second test on, with `text` in message_entry
send_message_idle(text) ==
    IF ~setup_completed
    THEN /\ Len(chat_display) < MaxNotices
         /\ chat_display' =
                append_chat(chat_display,
                            <<"System:", SP, "Please complete setup first.">>)
         /\ last_op' = Did("send_before_setup")
         /\ UNCHANGED <<setup_completed, is_processing,
                        send_button, chat_history, session_id,
                        sessions_created, threads, started, last_turn,
                        timers>>
    ELSE IF Strip(text) = <<>>
    THEN /\ last_op' = Did("send_empty")
         /\ UNCHANGED <<setup_completed, is_processing,
                        send_button, chat_history, chat_display, session_id,
                        sessions_created, threads, started, last_turn,
                        timers>>
    ELSE /\ started < MaxTurns
         /\ is_processing' = TRUE
         /\ send_button' = "disabled"
         /\ chat_history' =
                Append(chat_history, [role |-> "user", content |-> Strip(text)])
         /\ chat_display' = update_chat_display(chat_history')
         /\ threads' = (started + 1 :> NewThread(Strip(text))) @@ threads
         /\ started' = started + 1
         /\ last_op' = Did("send_accepted")
         /\ UNCHANGED <<setup_completed, session_id,
                        sessions_created, last_turn, timers>>

\* send_message without its test of is_processing
send_message_unguarded(text) == send_message_idle(text)

\* App.send_message with `text` in message_entry
send_message(text) ==
    IF is_processing
    THEN /\ last_op' = Did("send_ignored")
         /\ UNCHANGED <<setup_completed, is_processing,
                        send_button, chat_history, chat_display, session_id,
                        sessions_created, threads, started, last_turn,
                        timers>>
    ELSE send_message_idle(text)

\* a click on the Send button, which Tk delivers only while it is enabled
SendButton ==
    /\ send_button = "normal"
    /\ \E text \in EntryTexts : send_message(text)

\* the Return key in message_entry; the binding stays while the button is
\* disabled
ReturnKey == \E text \in EntryTexts : send_message(text)

\* App.clear_chat.  Its third statement reads self.agent: App has no such
\* attribute, so AttributeError ends the handler there (Tk reports it and
\* goes on).  Were the attribute there, the new session would be stored in
\* App.session_id, which chat_stream does not read.
clear_chat ==
    /\ chat_history' = <<>>
    /\ chat_display' = update_chat_display(chat_history')
    /\ IF "agent" \in AppAttributes
       THEN /\ sessions_created < MaxSessions
            /\ sessions_created' = sessions_created + 1
       ELSE UNCHANGED sessions_created
    /\ last_op' = Did("clear")
    /\ UNCHANGED <<setup_completed, is_processing, send_button,
                   session_id, threads, started, last_turn, timers>>

\* App.reset_input_state
reset_input_state ==
    /\ is_processing' = FALSE
    /\ send_button' = "normal"
    /\ UNCHANGED <<chat_history, chat_display>>

\* the lambda process_chat schedules in its except block.  `e` is the
\* except clause's name: Python unbinds it when the block is left, so the
\* lambda shows the error only if it runs while worker w is still in the
\* block, and raises NameError otherwise.
error_lambda(t) ==
    /\ chat_display' =
           IF t.w \in Workers /\ threads[t.w].pc = "except"
           THEN append_chat(chat_display, ErrorText(t.e))
           ELSE chat_display
    /\ UNCHANGED <<is_processing, send_button, chat_history>>

\* the Tk main loop runs the timer that is due first
RunTimer ==
    /\ timers # <<>>
    /\ timers' = Tail(timers)
    /\ LET t == Head(timers)
       IN  CASE t.cb = "update_chat_display" ->
                    /\ chat_display' = update_chat_display(chat_history)
                    /\ UNCHANGED <<is_processing, send_button, chat_history>>
             [] t.cb = "reset_input_state" -> reset_input_state
             [] t.cb = "lambda" -> error_lambda(t)
    /\ last_op' = Did(Head(timers).cb)
    /\ UNCHANGED <<setup_completed, session_id,
                   sessions_created, threads, started, last_turn>>

(***************************************************************************)
(* The worker thread: process_chat driving the chat_stream generator       *)
(***************************************************************************)
\* chat_stream's loop body: what one event adds to current_response
Accumulate(cur, event) ==
    IF event.kind = "tool"
    THEN cur \o <<SP, ToolBegin, SP>> \o event.content \o <<SP, ToolEnd, SP>>
    ELSE IF event.kind = "text"
         THEN cur \o event.content
         ELSE cur

\* chat_stream yields only in the branch of an event that is no tool event
Yields(event) == event.kind = "text"

\* process_chat's test `len(self.chat_history) % 2 == 1`
Branch(history) == IF Len(history) % 2 = 1 THEN "append" ELSE "update"

WorkerKeepsUI ==
    /\ last_op' = Did("worker")
    /\ UNCHANGED <<setup_completed, is_processing, send_button,
                   chat_display, session_id, sessions_created, started>>

\* the first next() on the generator: create_turn returns the response, or
\* it raises and chat_stream yields the error string to process_chat
chat_stream_create_turn(w) ==
    LET t == threads[w]
    IN  /\ t.pc = "start"
        /\ \/ threads' = [threads EXCEPT ![w] =
                            [t EXCEPT !.pc = "iter", !.gen = "open",
                                      !.session = session_id]]
           \/ \E e \in ClientErrors :
                threads' = [threads EXCEPT ![w] =
                              [t EXCEPT !.pc = Branch(chat_history),
                                        !.gen = "error",
                                        !.session = session_id,
                                        !.failed = "create_turn",
                                        !.response = ErrorText(e)]]
        /\ UNCHANGED <<chat_history, timers, last_turn>>
        /\ WorkerKeepsUI

\* next() while the generator is in its loop: the log delivers one event
chat_stream_next(w) ==
    LET t == threads[w]
    IN  /\ t.pc = "iter"
        /\ t.gen = "open"
        /\ t.n < MaxEvents
        /\ \E event \in LogEvents :
             LET r == Accumulate(t.current_response, event)
             IN  threads' = [threads EXCEPT ![w] =
                    IF Yields(event)
                    THEN [t EXCEPT !.n = t.n + 1, !.current_response = r,
                                   !.response = r,
                                   !.pc = Branch(chat_history)]
                    ELSE [t EXCEPT !.n = t.n + 1, !.current_response = r]]
        /\ UNCHANGED <<chat_history, timers, last_turn>>
        /\ WorkerKeepsUI

\* process_chat's finally clause, and the end of the thread
process_chat_finally(w, t) ==
    /\ timers' \in After0(timers, Timer("reset_input_state", 0, <<>>))
    /\ threads' = Without(w)
    /\ last_turn' = t.failed

\* next() ends the generator (the log is exhausted, or the generator was
\* suspended at its error yield); the for loop of process_chat ends
chat_stream_return(w) ==
    LET t == threads[w]
    IN  /\ t.pc = "iter"
        /\ t.gen \in {"open", "error"}
        /\ process_chat_finally(w, t)
        /\ UNCHANGED chat_history
        /\ WorkerKeepsUI

\* process_chat's except clause: the error lambda is scheduled
process_chat_except(w, t, e) ==
    /\ timers' \in After0(timers, Timer("lambda", w, e))
    /\ threads' = [threads EXCEPT ![w] = [t EXCEPT !.pc = "except"]]
    /\ UNCHANGED last_turn

\* the event log raises while it is iterated: chat_stream's try covers
\* create_turn only, so the exception leaves the generator
chat_stream_raise(w) ==
    LET t == threads[w]
    IN  /\ t.pc = "iter"
        /\ t.gen = "open"
        /\ \E e \in ClientErrors :
             process_chat_except(w, [t EXCEPT !.gen = "raised",
                                              !.failed = "log"], e)
        /\ UNCHANGED chat_history
        /\ WorkerKeepsUI

\* the external call (create_turn, or the next event) never returns
client_hangs(w) ==
    LET t == threads[w]
    IN  /\ t.pc \in {"start", "iter"}
        /\ t.gen \in {"new", "open"}
        /\ threads' = [threads EXCEPT ![w] = [t EXCEPT !.pc = "hung"]]
        /\ UNCHANGED <<chat_history, timers, last_turn>>
        /\ WorkerKeepsUI

\* the body of process_chat's loop after the test: append the assistant
\* entry or assign to the last entry, then schedule the redraw
process_chat_store(w) ==
    LET t == threads[w]
        entry == [role |-> "assistant", content |-> t.response]
    IN  /\ t.pc \in {"append", "update"}
        /\ IF t.pc = "append"
           THEN /\ chat_history' = Append(chat_history, entry)
                /\ timers' = After100(timers)
                /\ threads' = [threads EXCEPT ![w] = [t EXCEPT !.pc = "iter"]]
                /\ UNCHANGED last_turn
           ELSE IF chat_history = <<>>
           THEN /\ process_chat_except(w, [t EXCEPT !.failed = "index"],
                                       IndexErrorText)
                /\ UNCHANGED chat_history
           ELSE /\ chat_history' =
                       [chat_history EXCEPT ![Len(chat_history)].content =
                                                t.response]
                /\ timers' = After100(timers)
                /\ threads' = [threads EXCEPT ![w] = [t EXCEPT !.pc = "iter"]]
                /\ UNCHANGED last_turn
        /\ WorkerKeepsUI

\* process_chat with the reset scheduled at the end of the try block
\* instead of in a finally clause: after an exception nothing is scheduled
process_chat_leave_except_no_finally(w) ==
    LET t == threads[w]
    IN  /\ t.pc = "except"
        /\ threads' = Without(w)
        /\ last_turn' = t.failed
        /\ UNCHANGED <<chat_history, timers>>
        /\ WorkerKeepsUI

\* the except block is left (its name e is unbound) and finally runs
process_chat_leave_except(w) ==
    LET t == threads[w]
    IN  /\ t.pc = "except"
        /\ process_chat_finally(w, t)
        /\ UNCHANGED chat_history
        /\ WorkerKeepsUI

(***************************************************************************)
(* The GUI specification                                                   *)
(***************************************************************************)
GuiInit ==
    /\ setup_completed = FALSE
    /\ is_processing = FALSE
    /\ send_button = "normal"
    /\ chat_history = <<>>
    /\ chat_display = <<>>
    /\ session_id = 0
    /\ sessions_created = 0
    /\ threads = <<>>
    /\ started = 0
    /\ last_turn = ""
    /\ timers = <<>>
    /\ last_op = [op |-> "", busy |-> FALSE]

LoaderIdle ==
    /\ docs_dir = "abs"
    /\ tree = <<>>
    /\ file_set = <<>>
    /\ documents = <<>>
    /\ inserted = <<>>
    /\ load_pc = "idle"
    /\ load_i = 0

RelayIdle ==
    /\ log = [create_turn |-> "ok", events |-> <<>>, ending |-> "end"]
    /\ cs_pc = "idle"
    /\ cs_i = 0
    /\ current_response = <<>>
    /\ yielded = <<>>
    /\ drawn = [content |-> <<>>, lines |-> <<>>]

Init == GuiInit /\ LoaderIdle /\ RelayIdle

otherVars == <<loadVars, relayVars>>

UIStep ==
    \/ setup_chat_interface
    \/ SendButton
    \/ ReturnKey
    \/ clear_chat
    \/ RunTimer

WorkerStep(w) ==
    \/ chat_stream_create_turn(w)
    \/ chat_stream_next(w)
    \/ chat_stream_return(w)
    \/ chat_stream_raise(w)
    \/ client_hangs(w)
    \/ process_chat_store(w)
    \/ process_chat_leave_except(w)

Next ==
    \/ setup_chat_interface /\ UNCHANGED otherVars
    \/ SendButton /\ UNCHANGED otherVars
    \/ ReturnKey /\ UNCHANGED otherVars
    \/ clear_chat /\ UNCHANGED otherVars
    \/ RunTimer /\ UNCHANGED otherVars
    \/ \E w \in Workers : chat_stream_create_turn(w) /\ UNCHANGED otherVars
    \/ \E w \in Workers : chat_stream_next(w) /\ UNCHANGED otherVars
    \/ \E w \in Workers : chat_stream_return(w) /\ UNCHANGED otherVars
    \/ \E w \in Workers : chat_stream_raise(w) /\ UNCHANGED otherVars
    \/ \E w \in Workers : client_hangs(w) /\ UNCHANGED otherVars
    \/ \E w \in Workers : process_chat_store(w) /\ UNCHANGED otherVars
    \/ \E w \in Workers : process_chat_leave_except(w) /\ UNCHANGED otherVars

Spec == Init /\ [][Next]_vars

(***************************************************************************)
(* The streaming relay on its own: chat_stream over a given event log, and *)
(* update_chat_display's lines for the assistant entry that process_chat   *)
(* keeps equal to the last string yielded                                  *)
(***************************************************************************)
\* the events a log is made of here: two plain contents, to tell order
RelayEvents == LogEvents \cup { [kind |-> "text", content |-> <<"b">>] }

RECURSIVE SeqsUpTo(_, _)
SeqsUpTo(S, n) ==
    IF n = 0 THEN { <<>> }
    ELSE LET shorter == SeqsUpTo(S, n - 1)
         IN  shorter \cup { Append(q, x) : q \in shorter, x \in S }

\* create_turn returns or raises; the log delivers its events and then is
\* exhausted or raises
Logs ==
    [ create_turn : {"ok", "raise"},
      events : SeqsUpTo(RelayEvents, MaxLog),
      ending : {"end", "raise"} ]

RelayInit ==
    /\ log \in Logs
    /\ cs_pc = "new"
    /\ cs_i = 0
    /\ current_response = <<>>
    /\ yielded = <<>>
    /\ drawn = [content |-> <<>>, lines |-> <<>>]

\* chat_stream up to its loop: create_turn, guarded by try/except
relay_create_turn ==
    /\ cs_pc = "new"
    /\ IF log.create_turn = "raise"
       THEN /\ yielded' = Append(yielded, ErrorText(<<"x">>))
            /\ cs_pc' = "error"
       ELSE /\ cs_pc' = "loop"
            /\ UNCHANGED yielded
    /\ UNCHANGED <<log, cs_i, current_response, drawn>>

\* one round of chat_stream's loop over the event log
relay_next ==
    /\ cs_pc = "loop"
    /\ cs_i < Len(log.events)
    /\ cs_i' = cs_i + 1
    /\ current_response' = Accumulate(current_response, log.events[cs_i + 1])
    /\ yielded' = IF Yields(log.events[cs_i + 1])
                  THEN Append(yielded, current_response')
                  ELSE yielded
    /\ UNCHANGED <<log, cs_pc, drawn>>

\* the log is exhausted and the generator returns, or the log raises and,
\* the loop standing outside the try, the exception leaves the generator
relay_end ==
    /\ cs_pc = "loop"
    /\ cs_i = Len(log.events)
    /\ cs_pc' = IF log.ending = "raise" THEN "raised" ELSE "returned"
    /\ UNCHANGED <<log, cs_i, current_response, yielded, drawn>>

\* the generator is resumed after its error yield and returns
relay_return ==
    /\ cs_pc = "error"
    /\ cs_pc' = "returned"
    /\ UNCHANGED <<log, cs_i, current_response, yielded, drawn>>

\* update_chat_display's lines for an assistant entry holding the last
\* yielded string
relay_draw ==
    /\ yielded # <<>>
    /\ drawn' = [content |-> yielded[Len(yielded)],
                 lines |-> RenderAssistant(yielded[Len(yielded)])]
    /\ UNCHANGED <<log, cs_pc, cs_i, current_response, yielded>>

RelayNext ==
    \/ relay_create_turn /\ UNCHANGED <<guiVars, loadVars>>
    \/ relay_next /\ UNCHANGED <<guiVars, loadVars>>
    \/ relay_end /\ UNCHANGED <<guiVars, loadVars>>
    \/ relay_return /\ UNCHANGED <<guiVars, loadVars>>
    \/ relay_draw /\ UNCHANGED <<guiVars, loadVars>>

RelaySpecInit == GuiInit /\ LoaderIdle /\ RelayInit

RelaySpec == RelaySpecInit /\ [][RelayNext]_vars

(***************************************************************************)
(* The document loader: find_file_set and load_documents                   *)
(***************************************************************************)
\* str.upper() on the characters file extensions are made of
UpperChar(c) ==
    CASE c = "t" -> "T" [] c = "x" -> "X" [] c = "p" -> "P" [] c = "d" -> "D"
      [] c = "f" -> "F" [] c = "m" -> "M" [] c = "r" -> "R" [] c = "s" -> "S"
      [] c = "y" -> "Y" [] OTHER -> c

Upper(s) == [i \in 1..Len(s) |-> UpperChar(s[i])]

\* find_file_set's file_extensions after the update with the upper-case
\* versions
file_extensions ==
    LET lower == { <<".", "t", "x", "t">>, <<".", "p", "d", "f">>,
                   <<".", "m", "d">>, <<".", "r", "s", "t">> }
    IN  lower \cup { Upper(ext) : ext \in lower }

\* the suffixes a name in the tree can have; <<>> is a name without a dot
Suffixes ==
    { <<".", "t", "x", "t">>, <<".", "T", "X", "T">>, <<".", "T", "x", "t">>,
      <<".", "p", "d", "f">>, <<".", "P", "D", "F">>, <<".", "m", "d">>,
      <<".", "r", "s", "t">>, <<".", "p", "y">>, <<>> }

\* an entry of the tree: a regular file or a directory, with its suffix;
\* its place in the tree stands for the rest of its name
Entries == [kind : {"file", "dir"}, suffix : Suffixes]

\* the path find_file_set returns for entry i
PathOf(i) == [i |-> i, suffix |-> tree[i].suffix]

\* find_file_set: rglob("*.*") yields the entries whose name has a dot,
\* files and directories alike, and the suffix test keeps some of them
RECURSIVE find_file_set(_)
find_file_set(i) ==
    IF i > Len(tree) THEN <<>>
    ELSE IF tree[i].suffix # <<>> /\ tree[i].suffix \in file_extensions
         THEN <<PathOf(i)>> \o find_file_set(i + 1)
         ELSE find_file_set(i + 1)

\* filename.endswith(suffixes), for a filename that ends with its suffix
EndsWith(filename, suffixes) == filename.suffix \in suffixes

\* whether open(os.path.join(self.docs_dir, filename)) finds a regular
\* file: filename already starts with docs_dir, so the join names the file
\* only when docs_dir is absolute (the join then returns filename)
Readable(filename) == docs_dir = "abs" /\ tree[filename.i].kind = "file"

Document(filename, content) ==
    [document_id |-> filename, content |-> content, mime_type |-> "text/plain"]

\* load_documents up to its loop
load_documents_start ==
    /\ load_pc = "start"
    /\ file_set' = find_file_set(1)
    /\ load_i' = 1
    /\ load_pc' = "loop"
    /\ UNCHANGED <<docs_dir, tree, documents, inserted>>

\* one round of load_documents' loop over file_set
load_documents_file ==
    /\ load_pc = "loop"
    /\ load_i <= Len(file_set)
    /\ LET filename == file_set[load_i]
           text == EndsWith(filename, { <<".", "t", "x", "t">>,
                                        <<".", "m", "d">>,
                                        <<".", "r", "s", "t">> })
           pdf == EndsWith(filename, { <<".", "p", "d", "f">> })
       IN  IF (text \/ pdf) /\ ~Readable(filename)
           THEN /\ load_pc' = "raised"
                /\ UNCHANGED <<documents, load_i>>
           ELSE /\ documents' =
                       IF text THEN Append(documents, Document(filename, "text"))
                       ELSE IF pdf
                            THEN Append(documents, Document(filename, "base64"))
                            ELSE documents
                /\ load_i' = load_i + 1
                /\ UNCHANGED load_pc
    /\ UNCHANGED <<docs_dir, tree, file_set, inserted>>

\* after the loop: the documents, if any, go to rag_tool.insert
load_documents_insert ==
    /\ load_pc = "loop"
    /\ load_i > Len(file_set)
    /\ inserted' = IF documents # <<>> THEN Append(inserted, documents)
                   ELSE inserted
    /\ load_pc' = "done"
    /\ UNCHANGED <<docs_dir, tree, file_set, documents, load_i>>

LoaderInit ==
    /\ docs_dir \in {"abs", "rel"}
    /\ tree \in SeqsUpTo(Entries, MaxFiles)
    /\ file_set = <<>>
    /\ documents = <<>>
    /\ inserted = <<>>
    /\ load_pc = "start"
    /\ load_i = 0

LoaderNext ==
    \/ load_documents_start /\ UNCHANGED <<guiVars, relayVars>>
    \/ load_documents_file /\ UNCHANGED <<guiVars, relayVars>>
    \/ load_documents_insert /\ UNCHANGED <<guiVars, relayVars>>

LoaderSpecInit == GuiInit /\ LoaderInit /\ RelayIdle

LoaderSpec == LoaderSpecInit /\ [][LoaderNext]_vars

(***************************************************************************)
(* The GUI specification with the scheduling the program runs under: the   *)
(* operating system runs every live thread and the Tk main loop runs every *)
(* timer that is due, so a step of a thread or a timer callback is taken   *)
(* whenever one stays possible.  What the user does is not forced.         *)
(***************************************************************************)
Scheduled ==
    \/ RunTimer /\ UNCHANGED otherVars
    \/ \E w \in Workers : WorkerStep(w) /\ UNCHANGED otherVars

\* the steps of Next, with the sends that are accepted capped by
\* MaxFairTurns
FairNext ==
    \/ setup_chat_interface /\ UNCHANGED otherVars
    \/ SendButton /\ started' <= MaxFairTurns /\ UNCHANGED otherVars
    \/ ReturnKey /\ started' <= MaxFairTurns /\ UNCHANGED otherVars
    \/ clear_chat /\ UNCHANGED otherVars
    \/ RunTimer /\ UNCHANGED otherVars
    \/ \E w \in Workers : chat_stream_create_turn(w) /\ UNCHANGED otherVars
    \/ \E w \in Workers : chat_stream_next(w) /\ UNCHANGED otherVars
    \/ \E w \in Workers : chat_stream_return(w) /\ UNCHANGED otherVars
    \/ \E w \in Workers : chat_stream_raise(w) /\ UNCHANGED otherVars
    \/ \E w \in Workers : client_hangs(w) /\ UNCHANGED otherVars
    \/ \E w \in Workers : process_chat_store(w) /\ UNCHANGED otherVars
    \/ \E w \in Workers : process_chat_leave_except(w) /\ UNCHANGED otherVars

FairSpec == Init /\ [][FairNext]_vars /\ WF_vars(Scheduled)

(***************************************************************************)
(* Properties                                                              *)
(***************************************************************************)
SendEvent == SendButton \/ ReturnKey

UserEntry(m) == m.role = "user"

C2_ClearRenewsSession ==
    [][(setup_completed /\ clear_chat) =>
          /\ chat_history' = <<>>
          /\ chat_display' = <<>>
          /\ sessions_created' = sessions_created + 1
          /\ session_id' = sessions_created'
          /\ session_id' # session_id]_vars

\* nothing of any turn is left to run
Quiescent == threads = <<>> /\ timers = <<>>

ErrorLine(line) == \E k \in 1..Len(line.text) : line.text[k] = "Error:"

\* the lines of the transcript that follow its last user line
RECURSIVE AfterLastUser(_)
AfterLastUser(display) ==
    IF display = <<>> \/ display[Len(display)].tag = "user" THEN <<>>
    ELSE Append(AfterLastUser(SubSeq(display, 1, Len(display) - 1)),
                display[Len(display)])

ErrorEntries(lines) == Cardinality({ k \in 1..Len(lines) : ErrorLine(lines[k]) })

\* C3: when the external client raised during the last turn (in create_turn
\* or while the event log was iterated), then once the worker has ended and
\* every scheduled callback has run, the transcript shows exactly one error
\* entry for the turn and sending is usable again.
C3_ErrorShownOnce ==
    (Quiescent /\ last_turn \in {"create_turn", "log"} /\ last_op.op # "clear")
        => /\ ErrorEntries(AfterLastUser(chat_display)) = 1
           /\ ~is_processing
           /\ send_button = "normal"

Alternates(history) ==
    /\ Len(history) % 2 = 0
    /\ \A k \in 1..Len(history) :
         history[k].role = IF k % 2 = 1 THEN "user" ELSE "assistant"

\* C4: whenever no turn is in flight (every thread started has ended),
\* chat_history alternates user, assistant, ..., from a user entry to an
\* assistant entry.
C4_HistoryAlternates == ~Busy => Alternates(chat_history)

\* C10: when process_chat is about to assign to chat_history[-1], the list
\* is not empty and its last entry is an assistant entry.
C10_UpdateTargetsAssistant ==
    \A w \in Workers :
        threads[w].pc = "update" =>
            /\ chat_history # <<>>
            /\ chat_history[Len(chat_history)].role = "assistant"


\* C8 as the specification states it: every write to chat_history is made
\* by the worker thread, and no step of the UI thread changes it.
C8_OnlyWorkerWrites == [][UIStep => chat_history' = chat_history]_vars

\* the last entry of `history` is replaced by one of the same role
UpdatesLast(history, after) ==
    /\ history # <<>>
    /\ Len(after) = Len(history)
    /\ SubSeq(after, 1, Len(history) - 1) = SubSeq(history, 1, Len(history) - 1)
    /\ after[Len(after)].role = history[Len(history)].role

\* C8, amended: chat_history changes only when the worker thread appends an
\* assistant entry or updates the last entry in place, when send_message
\* (UI thread) appends a user entry, which it does only while no worker is
\* active, or when clear_chat (UI thread) replaces the list, which it does
\* at any time; the timer callbacks and setup never change it.
C8_Writers ==
    [][chat_history' # chat_history =>
          \/ /\ \E w \in Workers : process_chat_store(w)
             /\ \/ /\ Len(chat_history') = Len(chat_history) + 1
                   /\ SubSeq(chat_history', 1, Len(chat_history)) = chat_history
                   /\ chat_history'[Len(chat_history')].role = "assistant"
                \/ UpdatesLast(chat_history, chat_history')
          \/ /\ SendEvent
             /\ ~Busy
             /\ Len(chat_history') = Len(chat_history) + 1
             /\ SubSeq(chat_history', 1, Len(chat_history)) = chat_history
             /\ UserEntry(chat_history'[Len(chat_history')])
          \/ /\ clear_chat
             /\ chat_history' = <<>>]_vars

\* clear_chat has just emptied chat_history while a worker was active
C8_Witness ==
    /\ last_op = [op |-> "clear", busy |-> TRUE]
    /\ Busy
    /\ chat_history = <<>>
    /\ \E w \in Workers : threads[w].pc \in {"append", "update"}

Hung == \E w \in Workers : threads[w].pc = "hung"

\* C9: every turn started by send_message whose external calls return is
\* followed by reset_input_state: is_processing becomes false and the send
\* button normal again; is_processing stays true only when a call hangs.
C9_EventuallyReset ==
    is_processing ~> ((~is_processing /\ send_button = "normal") \/ Hung)

\* a turn that ended with an exception in the worker has been reset
C9_Witness ==
    /\ last_turn \in {"log", "index"}
    /\ Quiescent
    /\ ~is_processing
    /\ send_button = "normal"


(***************************************************************************)
(* Properties of the relay and of the drawing of its strings               *)
(***************************************************************************)
\* words joined the way update_chat_display joins them: a space before each
RECURSIVE JoinWords(_)
JoinWords(words) ==
    IF words = <<>> THEN <<>>
    ELSE <<SP>> \o Head(words) \o JoinWords(Tail(words))

IsMarker(word) == word = <<ToolBegin>> \/ word = <<ToolEnd>>

\* the tool-execution segments of a list of words: for every <tool-begin>
\* that is closed by a <tool-end>, the words between the two, in order
RECURSIVE Segments(_, _, _)
Segments(words, inside, cur) ==
    IF words = <<>> THEN <<>>
    ELSE IF Head(words) = <<ToolBegin>>
         THEN Segments(Tail(words), TRUE, <<>>)
         ELSE IF Head(words) = <<ToolEnd>>
              THEN (IF inside THEN <<cur>> ELSE <<>>)
                       \o Segments(Tail(words), FALSE, <<>>)
              ELSE Segments(Tail(words), inside,
                            IF inside THEN Append(cur, Head(words)) ELSE cur)

\* the words outside every pair of markers
RECURSIVE Outside(_, _)
Outside(words, inside) ==
    IF words = <<>> THEN <<>>
    ELSE IF Head(words) = <<ToolBegin>> THEN Outside(Tail(words), TRUE)
         ELSE IF Head(words) = <<ToolEnd>> THEN Outside(Tail(words), FALSE)
              ELSE (IF inside THEN <<>> ELSE <<Head(words)>>)
                       \o Outside(Tail(words), inside)

\* the lines of `lines` that carry `tag`, in order
RECURSIVE Tagged(_, _)
Tagged(lines, tag) ==
    IF lines = <<>> THEN <<>>
    ELSE (IF Head(lines).tag = tag THEN <<Head(lines)>> ELSE <<>>)
             \o Tagged(Tail(lines), tag)

\* C5: for an assistant entry whose content holds a tool-execution segment
\* between <tool-begin> and <tool-end>, update_chat_display draws, for
\* every segment, a Tool Execution line with exactly the words between the
\* markers, and draws the words before and after the segments as Assistant
\* text, outside the Tool Execution lines.
C5_ToolLineSeparate ==
    (drawn.lines # <<>> /\ Segments(Split(drawn.content), FALSE, <<>>) # <<>>)
        => LET words == Split(drawn.content)
               segments == Segments(words, FALSE, <<>>)
           IN  /\ Tagged(drawn.lines, "tool") =
                      [k \in 1..Len(segments) |-> ToolLine(JoinWords(segments[k]))]
               /\ Tagged(drawn.lines, "assistant") =
                      <<AssistantLine(JoinWords(Outside(words, FALSE)))>>

\* C7: whatever the external agent raises during a chat_stream call, in
\* create_turn or while the event log is iterated, the generator yields one
\* error string as its last element and returns; the exception never
\* reaches the consumer.
C7_ErrorYieldedNotRaised ==
    /\ cs_pc # "raised"
    /\ (cs_pc = "returned" /\ (log.create_turn = "raise" \/ log.ending = "raise"))
           => /\ yielded # <<>>
              /\ \E e \in ClientErrors : yielded[Len(yielded)] = ErrorText(e)

(***************************************************************************)
(* Properties of the loader                                                *)
(***************************************************************************)
\* str.lower() on the characters file extensions are made of
LowerChar(c) ==
    CASE c = "T" -> "t" [] c = "X" -> "x" [] c = "P" -> "p" [] c = "D" -> "d"
      [] c = "F" -> "f" [] c = "M" -> "m" [] c = "R" -> "r" [] c = "S" -> "s"
      [] c = "Y" -> "y" [] OTHER -> c

Lower(s) == [i \in 1..Len(s) |-> LowerChar(s[i])]

AllowList ==
    { <<".", "t", "x", "t">>, <<".", "p", "d", "f">>, <<".", "m", "d">>,
      <<".", "r", "s", "t">> }

\* the files of the tree whose extension is in the allow-list, compared
\* without regard to case
AllowedFiles ==
    { i \in 1..Len(tree) :
        tree[i].kind = "file" /\ Lower(tree[i].suffix) \in AllowList }

\* C6: load_documents builds exactly one document record for every file of
\* the tree whose extension is in the allow-list, compared without regard
\* to case, and hands exactly those records to the ingestion call.
C6_OneRecordPerAllowedFile ==
    load_pc \in {"done", "raised"} =>
        /\ load_pc = "done"
        /\ Len(documents) = Cardinality(AllowedFiles)
        /\ { documents[k].document_id.i : k \in 1..Len(documents) } = AllowedFiles
        /\ inserted = IF documents = <<>> THEN <<>> ELSE <<documents>>


(***************************************************************************)
(* Properties of the snapshots chat_stream yields                          *)
(***************************************************************************)
IsPrefix(s, t) == Len(s) <= Len(t) /\ SubSeq(t, 1, Len(s)) = s

\* an event of the log that has a content: a plain one or a tool execution
ContentBearing(event) == event.kind \in {"text", "tool"}

\* the contents of the content-bearing events in event order, the content
\* of a tool execution between the markers
RECURSIVE Concatenation(_)
Concatenation(events) ==
    IF events = <<>> THEN <<>>
    ELSE LET event == Head(events)
             piece == IF event.kind = "tool"
                      THEN <<SP, ToolBegin, SP>> \o event.content
                               \o <<SP, ToolEnd, SP>>
                      ELSE IF event.kind = "text" THEN event.content
                           ELSE <<>>
         IN  piece \o Concatenation(Tail(events))

\* each string yielded has the one yielded before it as a prefix
SnapshotsGrow ==
    \A k \in 2..Len(yielded) : IsPrefix(yielded[k - 1], yielded[k])

\* C11: when the event log of a turn ends without error, the last string
\* chat_stream yielded is the concatenation, in event order, of the content
\* of every content-bearing event, tool-execution content between
\* <tool-begin> and <tool-end>; every string yielded has the previous one
\* as a prefix; and a log with at least one content-bearing event yields at
\* least one string.
C11_LastSnapshotComplete ==
    /\ SnapshotsGrow
    /\ (cs_pc = "returned" /\ log.create_turn = "ok" /\ log.ending = "end")
           => /\ (\E k \in 1..Len(log.events) : ContentBearing(log.events[k]))
                     => yielded # <<>>
              /\ yielded # <<>>
                     => yielded[Len(yielded)] = Concatenation(log.events)

====
